---- MODULE Spec2Model ----
(***************************************************************************)
(* State-machine model of the Flask blog in src/server.py and src/forms.py *)
(*                                                                         *)
(* The shared state is the SQLite database (tables users, posts and        *)
(* comments).  Every browser (client) owns a login session and issues one  *)
(* request at a time; requests of different clients run concurrently (the  *)
(* server is threaded), each in its own SQLAlchemy session.  A handler is  *)
(* split where it goes back to the database after having read from it: the *)
(* first step is everything up to and including its first reads, the       *)
(* commit step is the flush of the pending INSERT / UPDATE / DELETE.       *)
(*                                                                         *)
(* The redirect after a commit is part of the commit step.                 *)
(*                                                                         *)
(* The database is the one configured at src/server.py:37: SQLite, no      *)
(* PRAGMA foreign_keys, so UNIQUE and NOT NULL are enforced and FOREIGN    *)
(* KEY clauses (also ON DELETE CASCADE) are not; an INTEGER PRIMARY KEY    *)
(* without AUTOINCREMENT is the rowid, and a new row gets max(rowid) + 1.  *)
(***************************************************************************)
EXTENDS Integers, Sequences, FiniteSets, TLC

\* ------------------------------------------------------------------ bounds
MaxPosts == 2        \* ids a post can get: 1..MaxPosts
MaxComments == 2     \* ids a comment can get: 1..MaxComments
MaxDay == 1          \* calendar days the clock runs through: 0..MaxDay
MaxRequests == 6     \* requests the server takes in one run

Clients == {"c1", "c2"}

\* --------------------------------------------------------------- constants
GUEST_CLASSIFICATION == 0
MEMBER_CLASSIFICATION == 1
ADMIN_CLASSIFICATION == 2

ADMIN_EMAIL == "admin@x.com"
ADMIN_PASSWORD == "adminpw1"
ADMIN_NAME == "Hadar"

\* ------------------------------------------------------------------ inputs
\* A GET request submits nothing: its form is the empty one.
NoPostForm ==
    [title |-> "", subtitle |-> "", img_url |-> "", author |-> "", body |-> ""]

PostForms ==
    { [title |-> "Hello", subtitle |-> "First", img_url |-> "http://x.com/a.png",
       author |-> "Hadar", body |-> "Hello body"],
      [title |-> "Hello", subtitle |-> "Second", img_url |-> "http://x.com/b.png",
       author |-> "Ann Lee", body |-> "Other body"],
      [title |-> "World", subtitle |-> "First", img_url |-> "http://x.com/a.png",
       author |-> "Hadar", body |-> "Hello body"],
      [title |-> "Hello", subtitle |-> "S", img_url |-> "not a url",
       author |-> "R2D2", body |-> "Hello body"] }

CommentBodies == {"Nice post", "Hey"}

NoRegisterForm == [email |-> "", password |-> "", name |-> ""]

RegisterForms ==
    { [email |-> "a@x.com", password |-> "pw123456", name |-> "Ann"],
      [email |-> ADMIN_EMAIL, password |-> "pw123456", name |-> "Ann"],
      [email |-> "nomail", password |-> "pw123456", name |-> "A"] }

NoLoginForm == [email |-> "", password |-> ""]

LoginForms ==
    { [email |-> ADMIN_EMAIL, password |-> ADMIN_PASSWORD],
      [email |-> ADMIN_EMAIL, password |-> "pw123456"],
      [email |-> "a@x.com", password |-> "pw123456"],
      [email |-> "b@x.com", password |-> "pw123456"] }

PostIds == 1..MaxPosts
CommentIds == 1..MaxComments
\* ids a URL can name
UrlPostIds == PostIds
UrlCommentIds == CommentIds

\* --------------------------------------------------------------- validators
\* wtforms Length(min, max) together with DataRequired
Length(s, min, max) == Len(s) > 0 /\ Len(s) >= min /\ Len(s) <= max

\* wtforms URL(): of the strings submitted here, the ones it accepts
URL(s) == s \in {"http://x.com/a.png", "http://x.com/b.png"}

\* wtforms Regexp(r'^[A-Za-z\s]+$'): of the strings submitted here, the ones it accepts
AuthorRegexp(s) == s \in {"Hadar", "Ann Lee"}

\* wtforms Email(): of the strings submitted here, the ones it accepts
Email(s) == s \in {ADMIN_EMAIL, "a@x.com", "b@x.com"}

BasePostForm_validate(form) ==
    /\ Length(form.title, 2, 100)
    /\ Length(form.subtitle, 2, 150)
    /\ Len(form.img_url) > 0 /\ URL(form.img_url)
    /\ Length(form.author, 2, 100) /\ AuthorRegexp(form.author)
    /\ Length(form.body, 5, Len(form.body))

CommentForm_validate(body) == Length(body, 5, Len(body))

RegisterForm_validate(form) ==
    /\ Length(form.name, 2, 50)
    /\ Len(form.email) > 0 /\ Email(form.email)
    /\ Len(form.password) > 0

LoginForm_validate(form) ==
    /\ Len(form.email) > 0 /\ Email(form.email)
    /\ Len(form.password) > 0

\* form.validate_on_submit(): the request is a POST and every validator accepts
validate_on_submit(is_submitted, valid) == is_submitted /\ valid

\* what a handler answers when validate_on_submit() is false: the form page,
\* with the validators' messages when a form was submitted
FormPage(is_submitted) == IF is_submitted THEN "ValidationError" ELSE "Form"

\* ---------------------------------------------------------- password digest
\* werkzeug: a salted digest, which only check_password_hash relates to a password
\* the check as it would be if it accepted every password
check_password_hash_Any(digest, password) == TRUE

generate_password_hash(password) == [method |-> "pbkdf2:sha256", of |-> password]
check_password_hash(digest, password) == digest.of = password

\* ------------------------------------------------------------------- state
VARIABLES
    users,              \* table users: sequence of rows, id = index
    posts,              \* table posts: id -> row
    comments,           \* table comments: id -> row
    today,              \* datetime.datetime.now().date()
    Post_date_default,  \* the default of column Post.date
    session,            \* client -> id of the logged-in user, 0 for none
    pc,                 \* client -> position of its request in the handler
    local,              \* client -> the handler's local variables
    response,           \* the response the last step sent, NoResponse if it sent none
    served              \* number of requests taken so far

vars == <<users, posts, comments, today, Post_date_default, session, pc, local, response, served>>

NoPost == [title |-> "", subtitle |-> "", img_url |-> "", author |-> "",
           body |-> "", date |-> 0]

NoComment == [user_id |-> 0, post_id |-> 0, body |-> "", approved |-> FALSE]

NoLocal == [post_id |-> 0, comment_id |-> 0, form |-> NoPostForm, body |-> "",
            reg |-> NoRegisterForm, post |-> NoPost, comment |-> NoComment,
            cascade |-> {}]

\* kind: what the handler answered; ref: the id the redirect names;
\* found, listed: what a page read got from its two queries
Outcome(kind, ref) == [kind |-> kind, ref |-> ref, found |-> FALSE, listed |-> <<>>]
\* client, op, id: who asked for what (id: the id in the URL, 0 when it has none)
NoResponse == [client |-> "", op |-> "", id |-> 0, out |-> Outcome("None", 0)]

AdminUser ==
    [email |-> ADMIN_EMAIL, password |-> generate_password_hash(ADMIN_PASSWORD),
     name |-> ADMIN_NAME, classification |-> ADMIN_CLASSIFICATION]

Init ==
    /\ users = <<AdminUser>>
    /\ posts = << >>
    /\ comments = << >>
    /\ today = 0
    /\ Post_date_default = 0
    /\ session = [c \in Clients |-> 0]
    /\ pc = [c \in Clients |-> "idle"]
    /\ local = [c \in Clients |-> NoLocal]
    /\ response = NoResponse
    /\ served = 0

\* ----------------------------------------------------------------- helpers
Max(S) == IF S = {} THEN 0 ELSE CHOOSE m \in S : \A n \in S : n <= m

\* SQLite rowid of a new row
NextRowId(table) == Max(DOMAIN table) + 1

get_classification_level(c) ==
    IF session[c] # 0 THEN users[session[c]].classification ELSE GUEST_CLASSIFICATION

\* db.select(User).where(User.email == email)
UsersByEmail(email) == {u \in DOMAIN users : users[u].email = email}

\* db.select(Post).where(Post.title == title)
PostsByTitle(title) == {p \in DOMAIN posts : posts[p].title = title}

\* the server takes a request of c, which has none in progress
Accept(c) ==
    /\ pc[c] = "idle"
    /\ served < MaxRequests
    /\ served' = served + 1

\* the request of c to handler op with id in its URL ends with response out
Finish(c, op, id, out) ==
    /\ pc' = [pc EXCEPT ![c] = "idle"]
    /\ local' = [local EXCEPT ![c] = NoLocal]
    /\ response' = [client |-> c, op |-> op, id |-> id, out |-> out]

\* the request of c goes on at label with locals loc
Continue(c, label, loc) ==
    /\ pc' = [pc EXCEPT ![c] = label]
    /\ local' = [local EXCEPT ![c] = loc]
    /\ response' = NoResponse

\* the day changes
Tick ==
    /\ today < MaxDay
    /\ today' = today + 1
    /\ response' = NoResponse
    /\ UNCHANGED <<users, posts, comments, Post_date_default, session, pc, local, served>>

\* ------------------------------------------------------ register, login, logout
register(c, form) ==
    /\ Accept(c)
    /\ UNCHANGED <<users, posts, comments, today, Post_date_default, session>>
    /\ IF session[c] # 0
       THEN Finish(c, "register", 0, Outcome("Ok", 0))
       ELSE IF ~validate_on_submit(form # NoRegisterForm, RegisterForm_validate(form))
       THEN Finish(c, "register", 0, Outcome(FormPage(form # NoRegisterForm), 0))
       ELSE IF UsersByEmail(form.email) # {}
       THEN Finish(c, "register", 0, Outcome("DuplicateEmail", 0))
       ELSE Continue(c, "register_commit", [NoLocal EXCEPT !.reg = form])

\* db.session.add(new_user); db.session.commit(); login_user(new_user)
register_commit(c) ==
    /\ pc[c] = "register_commit"
    /\ UNCHANGED served
    /\ UNCHANGED <<posts, comments, today, Post_date_default>>
    /\ IF UsersByEmail(local[c].reg.email) # {}
       THEN \* UNIQUE(users.email): IntegrityError, not caught
            /\ UNCHANGED <<users, session>>
            /\ Finish(c, "register", 0, Outcome("ServerError", 0))
       ELSE /\ users' = Append(users,
                   [email |-> local[c].reg.email,
                    password |-> generate_password_hash(local[c].reg.password),
                    name |-> local[c].reg.name,
                    classification |-> MEMBER_CLASSIFICATION])
            /\ session' = [session EXCEPT ![c] = Len(users) + 1]
            /\ Finish(c, "register", 0, Outcome("Ok", Len(users) + 1))

login(c, form) ==
    /\ Accept(c)
    /\ UNCHANGED <<users, posts, comments, today, Post_date_default>>
    /\ IF session[c] # 0
       THEN /\ UNCHANGED session
            /\ Finish(c, "login", 0, Outcome("Ok", 0))
       ELSE IF ~validate_on_submit(form # NoLoginForm, LoginForm_validate(form))
       THEN /\ UNCHANGED session
            /\ Finish(c, "login", 0, Outcome(FormPage(form # NoLoginForm), 0))
       ELSE IF UsersByEmail(form.email) = {}
       THEN /\ UNCHANGED session
            /\ Finish(c, "login", 0, Outcome("InvalidCredentials", 0))
       ELSE LET user_found == CHOOSE u \in UsersByEmail(form.email) : TRUE IN
            IF check_password_hash(users[user_found].password, form.password)
            THEN /\ session' = [session EXCEPT ![c] = user_found]
                 /\ Finish(c, "login", 0, Outcome("Ok", user_found))
            ELSE /\ UNCHANGED session
                 /\ Finish(c, "login", 0, Outcome("InvalidCredentials", 0))

logout(c) ==
    /\ Accept(c)
    /\ UNCHANGED <<users, posts, comments, today, Post_date_default>>
    /\ session' = [session EXCEPT ![c] = 0]
    /\ Finish(c, "logout", 0, Outcome("Ok", 0))

\* ------------------------------------------------------------- create_post
\* create_post as it would be without the look-up of the title
create_post_NoTitleCheck(c, form) ==
    /\ Accept(c)
    /\ UNCHANGED <<users, posts, comments, today, Post_date_default, session>>
    /\ IF get_classification_level(c) < 2
       THEN Finish(c, "create_post", 0, Outcome("Unauthorized", 0))
       ELSE IF ~validate_on_submit(form # NoPostForm, BasePostForm_validate(form))
       THEN Finish(c, "create_post", 0, Outcome(FormPage(form # NoPostForm), 0))
       ELSE Continue(c, "create_post_commit", [NoLocal EXCEPT !.form = form])

create_post(c, form) ==
    /\ Accept(c)
    /\ UNCHANGED <<users, posts, comments, today, Post_date_default, session>>
    /\ IF get_classification_level(c) < 2
       THEN Finish(c, "create_post", 0, Outcome("Unauthorized", 0))
       ELSE IF ~validate_on_submit(form # NoPostForm, BasePostForm_validate(form))
       THEN Finish(c, "create_post", 0, Outcome(FormPage(form # NoPostForm), 0))
       ELSE IF PostsByTitle(form.title) # {}
       THEN Finish(c, "create_post", 0, Outcome("DuplicateTitle", 0))
       ELSE Continue(c, "create_post_commit", [NoLocal EXCEPT !.form = form])

\* db.session.add(new_post); db.session.commit()
create_post_commit(c) ==
    /\ pc[c] = "create_post_commit"
    /\ UNCHANGED served
    /\ NextRowId(posts) <= MaxPosts
    /\ UNCHANGED <<users, comments, today, Post_date_default, session>>
    /\ IF PostsByTitle(local[c].form.title) # {}
       THEN \* UNIQUE(posts.title): IntegrityError, not caught
            /\ UNCHANGED posts
            /\ Finish(c, "create_post", 0, Outcome("ServerError", 0))
       ELSE LET id == NextRowId(posts)
                row == [title |-> local[c].form.title,
                        subtitle |-> local[c].form.subtitle,
                        img_url |-> local[c].form.img_url,
                        author |-> local[c].form.author,
                        body |-> local[c].form.body,
                        date |-> Post_date_default]
            IN /\ posts' = [p \in DOMAIN posts \cup {id} |->
                               IF p = id THEN row ELSE posts[p]]
               /\ Finish(c, "create_post", 0, Outcome("Ok", id))

\* --------------------------------------------------------------- show_post
\* the query as it would be without its where clause
CommentsOfPost_AnyPost(post_id) == DOMAIN comments

\* db.select(Comment).where(Comment.post_id == post_id)
CommentsOfPost(post_id) == {k \in DOMAIN comments : comments[k].post_id = post_id}

\* a row of table comments as a query returns it
CommentRow(k) ==
    [id |-> k, user_id |-> comments[k].user_id, post_id |-> comments[k].post_id,
     body |-> comments[k].body, approved |-> comments[k].approved]

\* SQLite stores a Boolean as the integer 0 or 1
BooleanValue(b) == IF b THEN 1 ELSE 0

\* the ordering as it would be with .asc() in place of .desc()
order_by_approved_asc(rows) ==
    \A i, j \in 1..Len(rows) :
        i < j => BooleanValue(rows[i].approved) <= BooleanValue(rows[j].approved)

\* .order_by(Comment.approved.desc()): the key never increases along the result
order_by_approved_desc(rows) ==
    \A i, j \in 1..Len(rows) :
        i < j => BooleanValue(rows[i].approved) >= BooleanValue(rows[j].approved)

\* the results the query of show_post can return: the rows of the post, each once,
\* in any order that respects ORDER BY (SQL leaves the order of equal keys open)
CommentsQuery(post_id) ==
    LET ids == CommentsOfPost(post_id)
        n == Cardinality(ids)
    IN { [i \in 1..n |-> CommentRow(f[i])] :
            f \in {g \in [1..n -> ids] : \A i, j \in 1..n : i # j => g[i] # g[j]} }

\* post_to_show = db.session.get(Post, post_id)
show_post(c, post_id) ==
    /\ Accept(c)
    /\ UNCHANGED <<users, posts, comments, today, Post_date_default, session>>
    /\ Continue(c, "show_post_query",
                [NoLocal EXCEPT !.post_id = post_id,
                                !.post = IF post_id \in DOMAIN posts
                                         THEN posts[post_id] ELSE NoPost])

\* comments = db.session.execute(...).scalars().all(), then the page is rendered
show_post_query(c) ==
    /\ pc[c] = "show_post_query"
    /\ UNCHANGED served
    /\ UNCHANGED <<users, posts, comments, today, Post_date_default, session>>
    /\ \E rows \in CommentsQuery(local[c].post_id) :
          /\ order_by_approved_desc(rows)
          /\ Finish(c, "show_post", local[c].post_id, [kind |-> IF local[c].post # NoPost THEN "Page" ELSE "NotFound",
                        ref |-> local[c].post_id,
                        found |-> local[c].post # NoPost,
                        listed |-> rows])

\* --------------------------------------------------------------- edit_post
edit_post(c, post_id, form) ==
    /\ Accept(c)
    /\ UNCHANGED <<users, posts, comments, today, Post_date_default, session>>
    /\ IF get_classification_level(c) < 2
       THEN Finish(c, "edit_post", post_id, Outcome("Unauthorized", 0))
       ELSE IF post_id \notin DOMAIN posts
       THEN Finish(c, "edit_post", post_id, Outcome("NotFound", 0))
       ELSE IF ~validate_on_submit(form # NoPostForm, BasePostForm_validate(form))
       THEN Finish(c, "edit_post", post_id, Outcome(FormPage(form # NoPostForm), 0))
       ELSE Continue(c, "edit_post_commit",
                     [NoLocal EXCEPT !.post_id = post_id, !.post = posts[post_id],
                                     !.form = form])

\* the row the UPDATE of a flush leaves: the columns whose new value differs
\* from the loaded one are SET, the others keep what the table holds
FlushedPost(current, loaded, new) ==
    [col \in DOMAIN current |->
        IF new[col] # loaded[col] THEN new[col] ELSE current[col]]

\* the assignments to post_to_update and db.session.commit()
edit_post_commit(c) ==
    /\ pc[c] = "edit_post_commit"
    /\ UNCHANGED served
    /\ UNCHANGED <<users, comments, today, Post_date_default, session>>
    /\ LET id == local[c].post_id
           loaded == local[c].post
           new == [title |-> local[c].form.title,
                   subtitle |-> local[c].form.subtitle,
                   img_url |-> local[c].form.img_url,
                   author |-> local[c].form.author,
                   body |-> local[c].form.body,
                   date |-> today]
       IN IF new = loaded
          THEN \* nothing is dirty: no UPDATE is emitted
               /\ UNCHANGED posts
               /\ Finish(c, "edit_post", id, Outcome("Ok", id))
          ELSE IF id \notin DOMAIN posts
          THEN \* the UPDATE matches no row: StaleDataError, not caught
               /\ UNCHANGED posts
               /\ Finish(c, "edit_post", id, Outcome("ServerError", 0))
          ELSE IF /\ new.title # loaded.title
                  /\ PostsByTitle(new.title) \ {id} # {}
          THEN \* UNIQUE(posts.title): IntegrityError, not caught
               /\ UNCHANGED posts
               /\ Finish(c, "edit_post", id, Outcome("ServerError", 0))
          ELSE /\ posts' = [posts EXCEPT ![id] = FlushedPost(posts[id], loaded, new)]
               /\ Finish(c, "edit_post", id, Outcome("Ok", id))

\* ------------------------------------------------------------- delete_post
\* the table without the rows whose id is in ids (DELETE ... WHERE id = ?)
DeleteRows(table, ids) == [k \in DOMAIN table \ ids |-> table[k]]

\* delete_post as it would be with the level of comment_post
delete_post_MemberLevel(c, post_id) ==
    /\ Accept(c)
    /\ UNCHANGED <<users, posts, comments, today, Post_date_default, session>>
    /\ IF get_classification_level(c) < 1
       THEN Finish(c, "delete_post", post_id, Outcome("Unauthorized", 0))
       ELSE IF post_id \notin DOMAIN posts
       THEN Finish(c, "delete_post", post_id, Outcome("NotFound", 0))
       ELSE Continue(c, "delete_post_commit",
                     [NoLocal EXCEPT !.post_id = post_id,
                                     !.cascade = CommentsOfPost(post_id)])

\* db.session.get(Post, post_id) and db.session.delete(post_to_delete), which
\* loads post_to_delete.comments to cascade the delete to them
delete_post(c, post_id) ==
    /\ Accept(c)
    /\ UNCHANGED <<users, posts, comments, today, Post_date_default, session>>
    /\ IF get_classification_level(c) < 2
       THEN Finish(c, "delete_post", post_id, Outcome("Unauthorized", 0))
       ELSE IF post_id \notin DOMAIN posts
       THEN Finish(c, "delete_post", post_id, Outcome("NotFound", 0))
       ELSE Continue(c, "delete_post_commit",
                     [NoLocal EXCEPT !.post_id = post_id,
                                     !.cascade = CommentsOfPost(post_id)])

\* the commit as it would be with a relationship that does not cascade the
\* delete: the loaded comments are kept and their post_id is set to NULL
delete_post_commit_Nullify(c) ==
    /\ pc[c] = "delete_post_commit"
    /\ UNCHANGED served
    /\ UNCHANGED <<users, today, Post_date_default, session>>
    /\ comments' = [k \in DOMAIN comments |->
                       IF k \in local[c].cascade
                       THEN [comments[k] EXCEPT !.post_id = 0]
                       ELSE comments[k]]
    /\ posts' = DeleteRows(posts, {local[c].post_id})
    /\ Finish(c, "delete_post", local[c].post_id, Outcome("Ok", 0))

\* db.session.commit(): one transaction deletes the loaded comments and the post
delete_post_commit(c) ==
    /\ pc[c] = "delete_post_commit"
    /\ UNCHANGED served
    /\ UNCHANGED <<users, today, Post_date_default, session>>
    /\ comments' = DeleteRows(comments, local[c].cascade)
    /\ posts' = DeleteRows(posts, {local[c].post_id})
    /\ Finish(c, "delete_post", local[c].post_id, Outcome("Ok", 0))

\* ------------------------------------------------------------ comment_post
\* comment_post as it would be without the test of post_to_comment
comment_post_NoLookup(c, post_id, body) ==
    /\ Accept(c)
    /\ UNCHANGED <<users, posts, comments, today, Post_date_default, session>>
    /\ IF get_classification_level(c) < 1
       THEN Finish(c, "comment_post", post_id, Outcome("Unauthorized", 0))
       ELSE IF ~validate_on_submit(body # "", CommentForm_validate(body))
       THEN Finish(c, "comment_post", post_id, Outcome(FormPage(body # ""), 0))
       ELSE Continue(c, "comment_post_commit",
                     [NoLocal EXCEPT !.post_id = post_id, !.body = body])

\* comment_post as it would be if it tested the level for equality with 1
comment_post_MembersOnly(c, post_id, body) ==
    /\ Accept(c)
    /\ UNCHANGED <<users, posts, comments, today, Post_date_default, session>>
    /\ IF get_classification_level(c) # 1
       THEN Finish(c, "comment_post", post_id, Outcome("Unauthorized", 0))
       ELSE IF post_id \notin DOMAIN posts
       THEN Finish(c, "comment_post", post_id, Outcome("NotFound", 0))
       ELSE IF ~validate_on_submit(body # "", CommentForm_validate(body))
       THEN Finish(c, "comment_post", post_id, Outcome(FormPage(body # ""), 0))
       ELSE Continue(c, "comment_post_commit",
                     [NoLocal EXCEPT !.post_id = post_id, !.body = body])

comment_post(c, post_id, body) ==
    /\ Accept(c)
    /\ UNCHANGED <<users, posts, comments, today, Post_date_default, session>>
    /\ IF get_classification_level(c) < 1
       THEN Finish(c, "comment_post", post_id, Outcome("Unauthorized", 0))
       ELSE IF post_id \notin DOMAIN posts
       THEN Finish(c, "comment_post", post_id, Outcome("NotFound", 0))
       ELSE IF ~validate_on_submit(body # "", CommentForm_validate(body))
       THEN Finish(c, "comment_post", post_id, Outcome(FormPage(body # ""), 0))
       ELSE Continue(c, "comment_post_commit",
                     [NoLocal EXCEPT !.post_id = post_id, !.body = body])

\* db.session.add(new_comment); db.session.commit(): the INSERT carries the id
\* of the post object loaded before; no foreign key is checked
comment_post_commit(c) ==
    /\ pc[c] = "comment_post_commit"
    /\ UNCHANGED served
    /\ NextRowId(comments) <= MaxComments
    /\ UNCHANGED <<users, posts, today, Post_date_default, session>>
    /\ LET id == NextRowId(comments)
           row == [user_id |-> session[c], post_id |-> local[c].post_id,
                   body |-> local[c].body, approved |-> FALSE]
       IN /\ comments' = [k \in DOMAIN comments \cup {id} |->
                             IF k = id THEN row ELSE comments[k]]
          /\ Finish(c, "comment_post", local[c].post_id, Outcome("Ok", local[c].post_id))

\* --------------------------------------------------------- approve_comment
\* approve_comment as it would be with the look-up before the level check
approve_comment_LookupFirst(c, comment_id) ==
    /\ Accept(c)
    /\ UNCHANGED <<users, posts, comments, today, Post_date_default, session>>
    /\ IF comment_id \notin DOMAIN comments
       THEN Finish(c, "approve_comment", comment_id, Outcome("NotFound", 0))
       ELSE IF get_classification_level(c) < 2
       THEN Finish(c, "approve_comment", comment_id, Outcome("Unauthorized", 0))
       ELSE Continue(c, "approve_comment_commit",
                     [NoLocal EXCEPT !.comment_id = comment_id,
                                     !.comment = comments[comment_id]])

approve_comment(c, comment_id) ==
    /\ Accept(c)
    /\ UNCHANGED <<users, posts, comments, today, Post_date_default, session>>
    /\ IF get_classification_level(c) < 2
       THEN Finish(c, "approve_comment", comment_id, Outcome("Unauthorized", 0))
       ELSE IF comment_id \notin DOMAIN comments
       THEN Finish(c, "approve_comment", comment_id, Outcome("NotFound", 0))
       ELSE Continue(c, "approve_comment_commit",
                     [NoLocal EXCEPT !.comment_id = comment_id,
                                     !.comment = comments[comment_id]])

\* comment_to_approve.approved = True; db.session.commit(); the redirect then
\* reads comment_to_approve.post_id, which the commit has expired
approve_comment_commit(c) ==
    /\ pc[c] = "approve_comment_commit"
    /\ UNCHANGED served
    /\ UNCHANGED <<users, posts, today, Post_date_default, session>>
    /\ LET id == local[c].comment_id IN
       IF id \notin DOMAIN comments
       THEN \* StaleDataError of the UPDATE, or ObjectDeletedError of the reload
            /\ UNCHANGED comments
            /\ Finish(c, "approve_comment", id, Outcome("ServerError", 0))
       ELSE IF local[c].comment.approved
       THEN \* nothing is dirty: no UPDATE is emitted
            /\ UNCHANGED comments
            /\ Finish(c, "approve_comment", id, Outcome("Ok", comments[id].post_id))
       ELSE /\ comments' = [comments EXCEPT ![id].approved = TRUE]
            /\ Finish(c, "approve_comment", id, Outcome("Ok", comments[id].post_id))

\* ---------------------------------------------------------- delete_comment
delete_comment(c, comment_id) ==
    /\ Accept(c)
    /\ UNCHANGED <<users, posts, comments, today, Post_date_default, session>>
    /\ IF get_classification_level(c) < 2
       THEN Finish(c, "delete_comment", comment_id, Outcome("Unauthorized", 0))
       ELSE IF comment_id \notin DOMAIN comments
       THEN Finish(c, "delete_comment", comment_id, Outcome("NotFound", 0))
       ELSE Continue(c, "delete_comment_commit",
                     [NoLocal EXCEPT !.comment_id = comment_id,
                                     !.comment = comments[comment_id]])

\* temp_post_id = comment_to_delete.post_id; db.session.delete(...); commit
delete_comment_commit(c) ==
    /\ pc[c] = "delete_comment_commit"
    /\ UNCHANGED served
    /\ UNCHANGED <<users, posts, today, Post_date_default, session>>
    /\ comments' = DeleteRows(comments, {local[c].comment_id})
    /\ Finish(c, "delete_comment", local[c].comment_id,
              Outcome("Ok", local[c].comment.post_id))

Next ==
    \/ \E c \in Clients, f \in RegisterForms : register(c, f)
    \/ \E c \in Clients : register_commit(c)
    \/ \E c \in Clients, f \in LoginForms : login(c, f)
    \/ \E c \in Clients : logout(c)
    \/ \E c \in Clients, f \in PostForms : create_post(c, f)
    \/ \E c \in Clients : create_post_commit(c)
    \/ \E c \in Clients, p \in UrlPostIds : show_post(c, p)
    \/ \E c \in Clients : show_post_query(c)
    \/ \E c \in Clients, p \in UrlPostIds, f \in PostForms :
          edit_post(c, p, f)
    \/ \E c \in Clients : edit_post_commit(c)
    \/ \E c \in Clients, p \in UrlPostIds : delete_post(c, p)
    \/ \E c \in Clients : delete_post_commit(c)
    \/ \E c \in Clients, p \in UrlPostIds, b \in CommentBodies :
          comment_post(c, p, b)
    \/ \E c \in Clients : comment_post_commit(c)
    \/ \E c \in Clients, k \in UrlCommentIds : approve_comment(c, k)
    \/ \E c \in Clients : approve_comment_commit(c)
    \/ \E c \in Clients, k \in UrlCommentIds : delete_comment(c, k)
    \/ \E c \in Clients : delete_comment_commit(c)

\* the requests of one calendar day
Spec == Init /\ [][Next]_vars

\* the requests of several days
SpecDays == Init /\ [][Next \/ Tick]_vars

\* ----------------------------------------------------------------- restart
\* the values ADMIN_EMAIL of the environment can have when the process starts
AdminEmails == {ADMIN_EMAIL, "b@x.com"}

\* the process is stopped and started again: the requests in progress are lost
\* and the module is imported anew, which evaluates the default of Post.date
\* and runs the bootstrap (db.create_all(), add the admin row, commit)
restart(admin_email) ==
    /\ local' = [c \in Clients |-> NoLocal]
    /\ UNCHANGED <<posts, comments, today, session, served>>
    /\ IF UsersByEmail(admin_email) # {}
       THEN \* UNIQUE(users.email): IntegrityError at import, the process exits
            /\ pc' = [c \in Clients |-> "down"]
            /\ response' = [client |-> "", op |-> "startup", id |-> 0,
                            out |-> Outcome("ServerError", 0)]
            /\ UNCHANGED <<users, Post_date_default>>
       ELSE /\ users' = Append(users,
                   [email |-> admin_email,
                    password |-> generate_password_hash(ADMIN_PASSWORD),
                    name |-> ADMIN_NAME,
                    classification |-> ADMIN_CLASSIFICATION])
            /\ pc' = [c \in Clients |-> "idle"]
            /\ Post_date_default' = today
            /\ response' = [client |-> "", op |-> "startup", id |-> 0,
                            out |-> Outcome("Ok", Len(users) + 1)]

\* the requests of one calendar day, with restarts of the process
SpecRestart == Init /\ [][Next \/ \E e \in AdminEmails : restart(e)]_vars

\* ------------------------------------------------- a blog with two posts
\* the state after both browsers have logged in as the admin and the posts
\* titled "Hello" and "World" have been created (login, login, create_post,
\* create_post from Init)
InitStocked ==
    /\ users = <<AdminUser>>
    /\ posts = <<[title |-> "Hello", subtitle |-> "First",
                  img_url |-> "http://x.com/a.png", author |-> "Hadar",
                  body |-> "Hello body", date |-> 0],
                 [title |-> "World", subtitle |-> "First",
                  img_url |-> "http://x.com/a.png", author |-> "Hadar",
                  body |-> "Hello body", date |-> 0]>>
    /\ comments = << >>
    /\ today = 0
    /\ Post_date_default = 0
    /\ session = [c \in Clients |-> 1]
    /\ pc = [c \in Clients |-> "idle"]
    /\ local = [c \in Clients |-> NoLocal]
    /\ response = NoResponse
    /\ served = 0

\* the requests that follow on the same day
SpecStocked == InitStocked /\ [][Next]_vars

\* ================================================================== claims
\* the handlers behind the authorization gate, and the least level each asks for
GatedOps ==
    {"comment_post", "create_post", "edit_post", "delete_post",
     "approve_comment", "delete_comment"}
MinLevel(op) == IF op = "comment_post" THEN 1 ELSE 2

\* C1: a caller with no authenticated identity (level 0) that asks for
\* comment_post, create_post, edit_post, delete_post, approve_comment or
\* delete_comment is answered Unauthorized, whatever id the URL names and
\* whether or not that id resolves: never NotFound, never success.
C1_GuestAlwaysUnauthorized ==
    \A c \in Clients :
        (response.client = c /\ response.op \in GatedOps
            /\ get_classification_level(c) = 0)
        => response.out.kind = "Unauthorized"

\* a guest asked to approve a comment id that does not resolve and was refused
C1_Witness ==
    /\ response.op = "approve_comment"
    /\ response.client \in Clients
    /\ session[response.client] = 0
    /\ response.id \notin DOMAIN comments
    /\ response.out.kind = "Unauthorized"

\* C2: a request of a caller whose level is below the handler's minimum
\* (comment_post: 1, the others: 2) is answered Unauthorized, and the step that
\* answers it leaves users, posts and comments as they were; so a level-1
\* member never creates, edits or deletes a post, nor approves or deletes a
\* comment.
C2_DeniedLeavesRepository ==
    [][\A c \in Clients :
          (response'.client = c /\ response'.op \in GatedOps
              /\ get_classification_level(c) < MinLevel(response'.op))
          => (response'.out.kind = "Unauthorized"
              /\ UNCHANGED <<users, posts, comments>>)]_vars

\* a member asked to delete a post that exists and was refused
C2_Witness ==
    /\ response.op = "delete_post"
    /\ response.client \in Clients
    /\ get_classification_level(response.client) = 1
    /\ response.id \in DOMAIN posts
    /\ response.out.kind = "Unauthorized"

C4_ConcurrentCreateOutcome ==
    [][\A c \in Clients :
          (pc[c] = "create_post_commit" /\ pc'[c] = "idle")
          => response'.out.kind \in {"Ok", "DuplicateTitle"}]_vars

\* C5: every stored comment references a post that is stored.
C5_NoOrphanComment ==
    \A k \in DOMAIN comments : comments[k].post_id \in DOMAIN posts

\* C6: the commit of a delete_post of post p that succeeds leaves no post p and
\* no comment whose post id is p, however many comments p had, and leaves every
\* other post and every comment of another post as it was.
C6_DeletePostCascades ==
    [][\A c \in Clients :
          (pc[c] = "delete_post_commit" /\ pc'[c] = "idle"
              /\ response'.out.kind = "Ok")
          => LET p == local[c].post_id IN
             /\ p \notin DOMAIN posts'
             /\ \A k \in DOMAIN comments' : comments'[k].post_id # p
             /\ \A q \in DOMAIN posts \ {p} :
                   q \in DOMAIN posts' /\ posts'[q] = posts[q]
             /\ \A k \in DOMAIN comments :
                   comments[k].post_id # p
                   => (k \in DOMAIN comments' /\ comments'[k] = comments[k])]_vars

\* C7: no page read answers with the post absent and a non-empty list of
\* comments of that post while the post is gone from the table.
C7_NoReadOfHalfDeletedPost ==
    response.op = "show_post"
    => ~(/\ ~response.out.found
         /\ Len(response.out.listed) > 0
         /\ response.id \notin DOMAIN posts)

\* C8 as stated: the comments query of show_post lists every unapproved comment
\* before every approved one.
C8_UnapprovedFirst ==
    response.op = "show_post"
    => \A i, j \in 1..Len(response.out.listed) :
          (~response.out.listed[i].approved /\ response.out.listed[j].approved)
          => i < j

\* C8 as amended: the comments query of show_post lists every approved comment
\* before every unapproved one; a comment that approve_comment has approved is
\* listed before every comment of the post that is still unapproved.
C8_ApprovedFirst ==
    response.op = "show_post"
    => \A i, j \in 1..Len(response.out.listed) :
          (response.out.listed[i].approved /\ ~response.out.listed[j].approved)
          => i < j

\* a page read listed an approved and an unapproved comment of its post
C8_Witness ==
    /\ response.op = "show_post"
    /\ \E i, j \in 1..Len(response.out.listed) :
          response.out.listed[i].approved /\ ~response.out.listed[j].approved

\* C9: the comments a page read of post id p lists are exactly the stored
\* comments whose post id is p, each once and as stored: none of another post,
\* none of p left out.
C9_ListsExactlyThePost ==
    response.op = "show_post"
    => LET listed == response.out.listed IN
       /\ \A i \in 1..Len(listed) :
             /\ listed[i].post_id = response.id
             /\ listed[i].id \in DOMAIN comments
             /\ comments[listed[i].id] =
                   [user_id |-> listed[i].user_id, post_id |-> listed[i].post_id,
                    body |-> listed[i].body, approved |-> listed[i].approved]
       /\ \A i, j \in 1..Len(listed) : listed[i].id = listed[j].id => i = j
       /\ \A k \in DOMAIN comments :
             comments[k].post_id = response.id
             => \E i \in 1..Len(listed) : listed[i].id = k

\* a page read listed the comments of its post while a comment of another post
\* is stored
C9_Witness ==
    /\ response.op = "show_post"
    /\ Len(response.out.listed) > 0
    /\ \E k \in DOMAIN comments : comments[k].post_id # response.id

\* the step answers NotFound and leaves users, posts and comments as they were
AnswersNotFound ==
    response'.out.kind = "NotFound" /\ UNCHANGED <<users, posts, comments>>

\* C10: for a caller whose level meets the handler's minimum, comment_post,
\* edit_post and delete_post on a post id that does not resolve, and
\* approve_comment and delete_comment on a comment id that does not resolve,
\* answer NotFound in the step that takes the request, which leaves users,
\* posts and comments as they were; no such request gets past the look-up.
C10_UnresolvedIdNotFound ==
    [][\A c \in Clients :
          pc[c] = "idle" =>
          /\ (/\ response'.client = c
              /\ response'.op \in {"comment_post", "edit_post", "delete_post"}
              /\ get_classification_level(c) >= MinLevel(response'.op)
              /\ response'.id \notin DOMAIN posts)
             => AnswersNotFound
          /\ (/\ response'.client = c
              /\ response'.op \in {"approve_comment", "delete_comment"}
              /\ get_classification_level(c) >= MinLevel(response'.op)
              /\ response'.id \notin DOMAIN comments)
             => AnswersNotFound
          /\ pc'[c] \in {"comment_post_commit", "edit_post_commit", "delete_post_commit"}
             => local'[c].post_id \in DOMAIN posts
          /\ pc'[c] \in {"approve_comment_commit", "delete_comment_commit"}
             => local'[c].comment_id \in DOMAIN comments]_vars

\* a member asked to comment on a post id that does not resolve and was
\* answered NotFound
C10_Witness ==
    /\ response.op = "comment_post"
    /\ response.client \in Clients
    /\ get_classification_level(response.client) = 1
    /\ response.id \notin DOMAIN posts
    /\ response.out.kind = "NotFound"

\* C11: a comment that was removed never exists again: when the last step
\* answered a delete_comment with success, the comment id it removed is not
\* stored after the next step either (so that a later approve_comment or
\* delete_comment on that id answers NotFound).
C11_RemovedCommentStaysRemoved ==
    [][(response.op = "delete_comment" /\ response.out.kind = "Ok")
          => response.id \notin DOMAIN comments']_vars

\* C12: exactly one user with classification 2 is stored, whatever restarts of
\* the process, registrations, logins and content operations have happened.
C12_ExactlyOneAdmin ==
    Cardinality({u \in DOMAIN users : users[u].classification = 2}) = 1

\* C19: a restart of the process while the admin is stored completes startup
\* and leaves the stored admin record as it was.
C19_RestartCompletesStartup ==
    response.op = "startup"
    => (response.out.kind = "Ok" /\ users[1] = AdminUser)

\* C13: a register of an unauthenticated caller whose form validates and whose
\* email is stored for some user (the admin's included) is answered
\* DuplicateEmail and leaves users and the session as they were; a register
\* that got past the look-up of the email adds exactly one user, with
\* classification 1, and logs the session in as that user; and no two stored
\* users share an email.
C13_RegisterOutcome ==
    [][\A c \in Clients :
          /\ (pc[c] = "idle" /\ session[c] = 0 /\ response'.op = "register")
             => \A f \in RegisterForms :
                   (/\ UsersByEmail(f.email) # {}
                    /\ RegisterForm_validate(f)
                    /\ register(c, f))
                   => (/\ response'.out.kind = "DuplicateEmail"
                       /\ UNCHANGED <<users, session>>)
          /\ (pc[c] = "register_commit" /\ pc'[c] = "idle")
             => (/\ response'.out.kind = "Ok"
                 /\ Len(users') = Len(users) + 1
                 /\ \A u \in DOMAIN users : users'[u] = users[u]
                 /\ users'[Len(users')].email = local[c].reg.email
                 /\ users'[Len(users')].classification = 1
                 /\ session'[c] = Len(users'))
          /\ \A u, v \in DOMAIN users' :
                users'[u].email = users'[v].email => u = v]_vars

\* C14: a login of an unauthenticated caller succeeds, and starts a session as
\* user u, only when the submitted email is the email of the stored user u and
\* the submitted password verifies against the digest of u; when the email is
\* unknown or the password does not verify, the login fails, the session stays
\* unauthenticated (level 0), and in either case no user record changes.
C14_LoginOnlyWithCredentials ==
    [][\A c \in Clients :
          (pc[c] = "idle" /\ session[c] = 0 /\ response'.op = "login")
          => \A f \in LoginForms :
                login(c, f)
                => /\ users' = users
                   /\ IF \E u \in DOMAIN users :
                            /\ users[u].email = f.email
                            /\ users[u].password.of = f.password
                      THEN /\ response'.out.kind = "Ok"
                           /\ session'[c] # 0
                           /\ users[session'[c]].email = f.email
                      ELSE /\ response'.out.kind = "InvalidCredentials"
                           /\ session'[c] = 0
                           /\ get_classification_level(c)' = 0]_vars

\* a login of an unauthenticated caller with the admin's email failed
C14_Witness ==
    /\ response.op = "login"
    /\ response.out.kind = "InvalidCredentials"
    /\ response.client \in Clients
    /\ session[response.client] = 0

\* C15: no two stored posts have the same title, and an edit_post of an admin
\* whose commit would set the title of its post to the title of a different
\* stored post fails for that request and leaves every post as it was.
C15_TitlesUniqueRenameRejected ==
    [][/\ \A p, q \in DOMAIN posts' :
             posts'[p].title = posts'[q].title => p = q
       /\ \A c \in Clients :
             (/\ pc[c] = "edit_post_commit" /\ pc'[c] = "idle"
              /\ \E q \in DOMAIN posts \ {local[c].post_id} :
                    posts[q].title = local[c].form.title)
             => (response'.out.kind # "Ok" /\ posts' = posts)]_vars

\* the step is not answered with the Unauthorized page
Allowed == response'.out.kind # "Unauthorized"

\* C16: the authorization decision is monotonic in the level: whenever two
\* callers whose levels are L and L + 1 (L in {0, 1}) can send the same request
\* in the same state and the handler lets the caller of level L in (does not
\* answer Unauthorized), it lets the caller of level L + 1 in as well; this for
\* the page read and for every gated handler.
C16_AuthorizationMonotonic ==
    \A c, d \in Clients :
        (/\ pc[c] = "idle" /\ pc[d] = "idle" /\ served < MaxRequests
         /\ get_classification_level(d) = get_classification_level(c) + 1)
        => /\ \A p \in UrlPostIds :
                 /\ ENABLED (show_post(c, p) /\ Allowed)
                       => ENABLED (show_post(d, p) /\ Allowed)
                 /\ ENABLED (delete_post(c, p) /\ Allowed)
                       => ENABLED (delete_post(d, p) /\ Allowed)
                 /\ \A b \in CommentBodies :
                       ENABLED (comment_post(c, p, b) /\ Allowed)
                       => ENABLED (comment_post(d, p, b) /\ Allowed)
                 /\ \A f \in PostForms :
                       ENABLED (edit_post(c, p, f) /\ Allowed)
                       => ENABLED (edit_post(d, p, f) /\ Allowed)
           /\ \A f \in PostForms :
                 ENABLED (create_post(c, f) /\ Allowed)
                 => ENABLED (create_post(d, f) /\ Allowed)
           /\ \A k \in UrlCommentIds :
                 /\ ENABLED (approve_comment(c, k) /\ Allowed)
                       => ENABLED (approve_comment(d, k) /\ Allowed)
                 /\ ENABLED (delete_comment(c, k) /\ Allowed)
                       => ENABLED (delete_comment(d, k) /\ Allowed)

\* a member and an admin can both send a comment on a stored post, and the
\* handler lets the member in
C16_Witness ==
    \E c, d \in Clients :
        /\ pc[c] = "idle" /\ pc[d] = "idle" /\ served < MaxRequests
        /\ get_classification_level(c) = 1
        /\ get_classification_level(d) = 2
        /\ \E p \in DOMAIN posts :
              ENABLED (comment_post(c, p, "Nice post") /\ Allowed)

\* C17: the post a successful create_post inserts is dated with the day on
\* which it is inserted, on every day of the life of the process.
C17_CreatedPostDatedNow ==
    [][\A c \in Clients :
          (pc[c] = "create_post_commit" /\ pc'[c] = "idle"
              /\ response'.out.kind = "Ok")
          => posts'[response'.out.ref].date = today]_vars

\* C18: an edit_post of an admin that succeeds leaves its post stored under the
\* same id with the title, subtitle, img_url, author and body of the submitted
\* form and with the date of the day of the edit, and leaves the comments
\* (their approved flags included) and every other post as they were.
C18_EditReplacesFields ==
    [][\A c \in Clients :
          (pc[c] = "edit_post_commit" /\ pc'[c] = "idle"
              /\ response'.out.kind = "Ok")
          => LET id == local[c].post_id
                 form == local[c].form
             IN /\ id \in DOMAIN posts'
                /\ posts'[id] = [title |-> form.title, subtitle |-> form.subtitle,
                                 img_url |-> form.img_url, author |-> form.author,
                                 body |-> form.body, date |-> today]
                /\ DOMAIN posts' = DOMAIN posts
                /\ \A q \in DOMAIN posts \ {id} : posts'[q] = posts[q]
                /\ comments' = comments]_vars

\* C20: an approve_comment and a delete_comment that succeed redirect to the
\* post that was the parent of the comment stored under the target id before
\* the commit; they leave every post and every other comment as they were, and
\* delete_comment removes the target comment.
C20_ReturnsParentPost ==
    [][\A c \in Clients :
          LET id == local[c].comment_id IN
          /\ (pc[c] = "approve_comment_commit" /\ pc'[c] = "idle"
                 /\ response'.out.kind = "Ok")
             => (/\ id \in DOMAIN comments
                 /\ response'.out.ref = comments[id].post_id
                 /\ posts' = posts
                 /\ DOMAIN comments' = DOMAIN comments
                 /\ \A k \in DOMAIN comments \ {id} : comments'[k] = comments[k])
          /\ (pc[c] = "delete_comment_commit" /\ pc'[c] = "idle"
                 /\ response'.out.kind = "Ok")
             => (/\ id \in DOMAIN comments
                       => response'.out.ref = comments[id].post_id
                 /\ posts' = posts
                 /\ comments' = DeleteRows(comments, {id}))]_vars

\* C21: from the step that stores a comment to the step that removes it, its
\* body, its author and its parent post id stay what they were when it was
\* stored, whatever requests are served (approve_comment, edit_post of its
\* post, comment_post of others, login, logout): approved is the only field
\* of a stored comment that a step changes; and a comment is stored with the
\* body and post id of the comment_post that stores it and with the user of
\* that request's session as its author.
C21_CommentFieldsImmutable ==
    [][/\ \A k \in DOMAIN comments \cap DOMAIN comments' :
             /\ comments'[k].user_id = comments[k].user_id
             /\ comments'[k].post_id = comments[k].post_id
             /\ comments'[k].body = comments[k].body
       /\ \A k \in DOMAIN comments' \ DOMAIN comments :
             \E c \in Clients :
                /\ pc[c] = "comment_post_commit" /\ pc'[c] = "idle"
                /\ session[c] # 0
                /\ comments'[k] = [user_id |-> session[c],
                                   post_id |-> local[c].post_id,
                                   body |-> local[c].body,
                                   approved |-> FALSE]]_vars

\* a comment of a member was approved and is stored with the member as author
C21_Witness ==
    /\ response.op = "approve_comment"
    /\ response.out.kind = "Ok"
    /\ response.id \in DOMAIN comments
    /\ comments[response.id].approved
    /\ comments[response.id].user_id = 2
====
